---- MODULE Spec2Model ----
(***************************************************************************)
(* Model of src/app.py (Hunter V9.0): the chip-distribution algorithm      *)
(* (calc_chip_distribution, get_chip_metrics) and the multi-source         *)
(* failover loop of get_full_data.                                         *)
(*                                                                         *)
(* Numbers.  Python floats are modelled as exact rationals <<n, d>> with   *)
(* d > 0 in lowest terms; <<0, 0>> is NaN.  Close prices are given in      *)
(* thousandths (mills) so that round(close, 2) is a real conversion; bin   *)
(* prices are integers in hundredths (cents).                              *)
(***************************************************************************)
EXTENDS Integers, Sequences, FiniteSets, TLC

VARIABLES
    \* ---- calc_chip_distribution / get_chip_metrics ----
    df,             \* the caller's DataFrame object: [columns, rows]
    df_in,          \* the DataFrame as it was when the caller passed it
    pc,             \* position in calc_chip_distribution / get_chip_metrics
    idx,            \* number of rows df.iterrows() has yielded so far
    turnover,       \* local `turnover` of the latest loop iteration
    chip_dict,      \* local dict, in insertion order: Seq([price, volume])
    total_vol,      \* local `total_vol`
    chip_df,        \* returned table: Seq([price, volume, cumsum_vol])
    current_price,  \* argument of get_chip_metrics, in mills
    metrics,        \* [profit_ratio, avg_cost, concentration_90] returned
    \* ---- get_full_data ----
    f_pc,           \* position in get_full_data
    strat_i,        \* index of the strategy the for loop is at (1..5)
    has_df,         \* `df is not None`
    used_source,    \* local `used_source`
    logs,           \* local `logs`
    calls,          \* strategy functions invoked so far, in order
    api_calls,      \* akshare endpoint requests made so far, in order
    outcomes,       \* what each invoked strategy did: "data", "empty", "error"
    circulating,    \* local `circulating_share` is set and > 0
    result          \* what get_full_data returned: "none", "error", "bundle"

vars == <<df, df_in, pc, idx, turnover, chip_dict, total_vol, chip_df,
          current_price, metrics,
          f_pc, strat_i, has_df, used_source, logs, calls, api_calls,
          outcomes, circulating, result>>

chipVars == <<df, df_in, pc, idx, turnover, chip_dict, total_vol, chip_df,
              current_price, metrics>>

fetchVars == <<f_pc, strat_i, has_df, used_source, logs, calls, api_calls,
               outcomes, circulating, result>>

-----------------------------------------------------------------------------
(* Bounds and input sets *)

MaxBars == 3

\* close prices of the input bars, in mills (10.0, 10.004, 20.0, 30.0, 42.0)
Closes == {10000, 10004, 20000, 30000, 42000}

\* the closes that are combined with every turnover_ratio cell
MainCloses == {10000, 20000, 30000}

-----------------------------------------------------------------------------
(* Exact rational arithmetic standing for Python float arithmetic *)

Abs(n) == IF n < 0 THEN -n ELSE n

RECURSIVE GCD(_, _)
GCD(a, b) == IF b = 0 THEN a ELSE GCD(b, a % b)

Rat(n, d) ==
    LET g == GCD(Abs(n), Abs(d))
        s == IF d < 0 THEN -1 ELSE 1
    IN  <<s * (n \div g), s * (d \div g)>>

NaN  == <<0, 0>>
Zero == <<0, 1>>
One  == <<1, 1>>

IsNaN(a) == a[2] = 0

RAdd(a, b) ==
    LET g == GCD(a[2], b[2])
    IN  Rat(a[1] * (b[2] \div g) + b[1] * (a[2] \div g), (a[2] \div g) * b[2])

RNeg(a) == <<-a[1], a[2]>>

RSub(a, b) == RAdd(a, RNeg(b))

RMul(a, b) ==
    LET g1 == GCD(Abs(a[1]), b[2])
        g2 == GCD(Abs(b[1]), a[2])
    IN  Rat((a[1] \div g1) * (b[1] \div g2), (a[2] \div g2) * (b[2] \div g1))

\* b # 0
RDiv(a, b) == RMul(a, Rat(b[2], b[1]))

RLe(a, b) ==
    LET g == GCD(a[2], b[2])
    IN  a[1] * (b[2] \div g) <= b[1] * (a[2] \div g)

RLt(a, b) == ~RLe(b, a)

RECURSIVE RSum(_)
RSum(s) == IF s = <<>> THEN Zero ELSE RAdd(Head(s), RSum(Tail(s)))

-----------------------------------------------------------------------------
(* 2. Chip Distribution Algo: calc_chip_distribution *)

\* the fill value of lines 67 and 69, in percent
DefaultTurnover == 2

\* turnover_ratio cells of the input, in percent; NaN is a missing cell
Ratios == {Rat(0, 1), Rat(50, 1), Rat(100, 1), Rat(200, 1), NaN}

\* round(row['close'], decimals) with decimals = 2: mills -> cents,
\* ties to even
Round2(m) ==
    LET q == m \div 10
        r == m % 10
    IN  IF r < 5 THEN q
        ELSE IF r > 5 THEN q + 1
        ELSE IF q % 2 = 0 THEN q ELSE q + 1

\* a bin price (cents) and a close (mills) as floats
PriceOf(c) == Rat(c, 100)
CloseOf(m) == Rat(m, 1000)

HasTurnover(d) == "turnover_ratio" \in d.columns

\* lines 66-69: df['turnover_ratio'] = 2.0, or .fillna(2.0); the assignment
\* writes the column of the DataFrame object the caller passed
FillTurnover(d) ==
    [columns |-> d.columns \cup {"turnover_ratio"},
     rows |-> [k \in 1..Len(d.rows) |->
                 [close |-> d.rows[k].close,
                  turnover_ratio |->
                      IF ~HasTurnover(d) THEN Rat(DefaultTurnover, 1)
                      ELSE IF IsNaN(d.rows[k].turnover_ratio)
                           THEN Rat(DefaultTurnover, 1)
                           ELSE d.rows[k].turnover_ratio]]]

\* line 73: turnover = row['turnover_ratio'] / 100.0
TurnoverOf(row) == RDiv(row.turnover_ratio, Rat(100, 1))

\* a decay that keeps the fraction `turnover` instead of shedding it
Decay_ByTurnover(dict, t) ==
    [k \in 1..Len(dict) |->
        [price |-> dict[k].price, volume |-> RMul(dict[k].volume, t)]]

\* no decay at all: bars would simply be added up
Decay_None(dict, t) == dict

\* lines 76-77: every existing bin is multiplied by (1.0 - turnover)
Decay(dict, t) ==
    [k \in 1..Len(dict) |->
        [price |-> dict[k].price,
         volume |-> RMul(dict[k].volume, RSub(One, t))]]

HasKey(dict, p) == \E k \in 1..Len(dict) : dict[k].price = p

\* lines 80-83: add turnover to the bin of price, creating it at the end
Inject(dict, p, t) ==
    IF HasKey(dict, p)
    THEN [k \in 1..Len(dict) |->
            IF dict[k].price = p
            THEN [price |-> p, volume |-> RAdd(dict[k].volume, t)]
            ELSE dict[k]]
    ELSE Append(dict, [price |-> p, volume |-> t])

\* line 86: chip_df.sort_values('price') (keys of a dict are unique)
RECURSIVE SortValues(_)
SortValues(tab) ==
    IF tab = <<>> THEN <<>>
    ELSE LET m == CHOOSE k \in 1..Len(tab) :
                     \A j \in 1..Len(tab) : tab[k].price <= tab[j].price
             rest == [j \in 1..(Len(tab) - 1) |->
                         IF j < m THEN tab[j] ELSE tab[j + 1]]
         IN  <<tab[m]>> \o SortValues(rest)

Volumes(tab) == [k \in 1..Len(tab) |-> tab[k].volume]

\* line 88: chip_df['volume'].sum()
TotalVol(tab) == RSum(Volumes(tab))

\* lines 89-90: divide by total_vol only when total_vol > 0
Normalize(tab, total) ==
    IF RLt(Zero, total)
    THEN [k \in 1..Len(tab) |->
            [price |-> tab[k].price, volume |-> RDiv(tab[k].volume, total)]]
    ELSE tab

\* line 92: chip_df['cumsum_vol'] = chip_df['volume'].cumsum()
Cumsum(tab) ==
    [k \in 1..Len(tab) |->
        [price |-> tab[k].price,
         volume |-> tab[k].volume,
         cumsum_vol |-> RSum(SubSeq(Volumes(tab), 1, k))]]

\* lines 85-93
BuildChipDf(dict) ==
    LET sorted == SortValues(dict)
    IN  Cumsum(Normalize(sorted, TotalVol(sorted)))

-----------------------------------------------------------------------------
(* get_chip_metrics *)

\* the comparison with a strict <
InProfit_Strict(price, cur) == price * 10 < cur

\* line 98: chip_df['price'] <= current_price
InProfit(price, cur) == price * 10 <= cur

\* lines 98-99
ProfitRatio(tab, cur) ==
    RMul(RSum(Volumes(SelectSeq(tab, LAMBDA r : InProfit(r.price, cur)))),
         Rat(100, 1))

\* line 100
AvgCost(tab) ==
    RSum([k \in 1..Len(tab) |-> RMul(PriceOf(tab[k].price), tab[k].volume)])

\* lines 102-103: chip_df[chip_df['cumsum_vol'] >= q]; .iloc[0] is its
\* first row and raises IndexError when there is none
AtLeast(tab, q) == SelectSeq(tab, LAMBDA r : RLe(q, r.cumsum_vol))

\* the spread without the factor 2
Spread_NoDouble(p05, p95) ==
    RMul(RDiv(RSub(p95, p05), RAdd(p05, p95)), Rat(100, 1))

\* line 104
Spread(p05, p95) ==
    RMul(RMul(RDiv(RSub(p95, p05), RAdd(p05, p95)), Rat(2, 1)), Rat(100, 1))

\* lines 101-106: the bare except turns the IndexError into 0
Concentration90(tab) ==
    LET lo == AtLeast(tab, Rat(5, 100))
        hi == AtLeast(tab, Rat(95, 100))
    IN  IF lo = <<>> \/ hi = <<>> THEN Zero
        ELSE Spread(PriceOf(lo[1].price), PriceOf(hi[1].price))

\* lines 95-107
ChipMetrics(tab, cur) ==
    IF tab = <<>>
    THEN [profit_ratio |-> Zero, avg_cost |-> Zero, concentration_90 |-> Zero]
    ELSE [profit_ratio |-> ProfitRatio(tab, cur),
          avg_cost |-> AvgCost(tab),
          concentration_90 |-> Concentration90(tab)]

-----------------------------------------------------------------------------
(* Inputs *)

\* rows of a frame that has the column: every cell value at 10.0, 20.0 and
\* 30.0, one bar at 42.0 and one bar whose close has a third decimal
RowsWith ==
    [close : MainCloses, turnover_ratio : Ratios]
    \cup {[close |-> 42000, turnover_ratio |-> Rat(50, 1)],
          [close |-> 10004, turnover_ratio |-> Rat(100, 1)]}
RowsWithout == [close : Closes]

SeqsUpTo(S, n) == UNION {[1..k -> S] : k \in 0..n}

InputFrames ==
    {[columns |-> {"close", "turnover_ratio"}, rows |-> r] :
        r \in SeqsUpTo(RowsWith, MaxBars)}
    \cup
    {[columns |-> {"close"}, rows |-> r] : r \in SeqsUpTo(RowsWithout, MaxBars)}

\* current_price handed to get_chip_metrics: the last close (line 248), or
\* a quote below every bin (5.0) or between the bins (25.0)
CurrentPrices(d) ==
    {5000, 25000} \cup
    (IF d.rows = <<>> THEN {} ELSE {d.rows[Len(d.rows)].close})

NoMetrics == [profit_ratio |-> Zero, avg_cost |-> Zero, concentration_90 |-> Zero]

FetchIdle ==
    /\ f_pc = "idle"
    /\ strat_i = 1
    /\ has_df = FALSE
    /\ used_source = "None"
    /\ logs = <<>>
    /\ calls = <<>>
    /\ api_calls = <<>>
    /\ outcomes = <<>>
    /\ circulating = FALSE
    /\ result = "none"

Init ==
    /\ df \in InputFrames
    /\ df_in = df
    /\ pc = "fill"
    /\ idx = 0
    /\ turnover = NaN
    /\ chip_dict = <<>>
    /\ total_vol = Zero
    /\ chip_df = <<>>
    /\ current_price = 0
    /\ metrics = NoMetrics
    /\ FetchIdle

-----------------------------------------------------------------------------
(* Actions of calc_chip_distribution and get_chip_metrics *)

\* lines 62-69
FillStep ==
    /\ pc = "fill"
    /\ df' = FillTurnover(df)
    /\ chip_dict' = <<>>
    /\ pc' = "iterrows"
    /\ UNCHANGED <<df_in, idx, turnover, total_vol, chip_df, current_price,
                   metrics>>
    /\ UNCHANGED fetchVars

\* lines 71-83: one iteration of `for index, row in df.iterrows()`
IterateRow ==
    /\ pc = "iterrows"
    /\ idx < Len(df.rows)
    /\ LET row == df.rows[idx + 1]
           price == Round2(row.close)
           t == TurnoverOf(row)
       IN  /\ turnover' = t
           /\ chip_dict' = Inject(Decay(chip_dict, t), price, t)
    /\ idx' = idx + 1
    /\ UNCHANGED <<df, df_in, pc, total_vol, chip_df, current_price, metrics>>
    /\ UNCHANGED fetchVars

\* lines 85-93
BuildStep ==
    /\ pc = "iterrows"
    /\ idx = Len(df.rows)
    /\ total_vol' = TotalVol(SortValues(chip_dict))
    /\ chip_df' = BuildChipDf(chip_dict)
    /\ pc' = "returned"
    /\ UNCHANGED <<df, df_in, idx, turnover, chip_dict, current_price, metrics>>
    /\ UNCHANGED fetchVars

\* lines 95-107
GetChipMetrics ==
    /\ pc = "returned"
    /\ \E cur \in CurrentPrices(df) :
          /\ current_price' = cur
          /\ metrics' = ChipMetrics(chip_df, cur)
    /\ pc' = "metrics"
    /\ UNCHANGED <<df, df_in, idx, turnover, chip_dict, total_vol, chip_df>>
    /\ UNCHANGED fetchVars

Next ==
    \/ FillStep
    \/ IterateRow
    \/ BuildStep
    \/ GetChipMetrics

Spec == Init /\ [][Next]_vars

-----------------------------------------------------------------------------
(* 3./4. get_full_data: the five ports and the polling loop *)

\* lines 185-191
strategies ==
    <<"EastMoney (Official)", "Sina Finance", "Tencent Stock",
      "NetEase (163)", "EastMoney (Unadjusted)">>

\* the akshare endpoint each strategy requests (lines 126, 136, 144, 152, 163)
Endpoint(i) ==
    <<"stock_zh_a_hist", "stock_zh_a_daily", "stock_zh_a_hist_tx",
      "stock_zh_a_hist_163", "stock_zh_a_hist">>[i]

\* what one endpoint request does: a non-empty table, None or an empty
\* table, or an exception
ApiOutcomes == {"data", "empty", "error"}

\* lines 130 and 167: only the EastMoney column maps name turnover_ratio
ProvidesTurnover(source) ==
    source \in {"EastMoney (Official)", "EastMoney (Unadjusted)"}

\* lines 127, 137, 145, 157, 164 and 214-221: a strategy returns a cleaned
\* non-empty table on "data"; on "empty" it raises ValueError("Empty Data");
\* on "error" the exception of the request reaches the except clause
LogOf(source, o) ==
    IF o = "data" THEN [kind |-> "success", source |-> source, msg |-> ""]
    ELSE IF o = "empty"
         THEN [kind |-> "failed", source |-> source, msg |-> "Empty Data"]
         ELSE [kind |-> "failed", source |-> source, msg |-> "exception"]

\* the loop without its `break`
AfterStrategy_NoBreak(ok, i) ==
    IF i < Len(strategies) THEN "loop" ELSE "after_loop"

\* lines 214-221: `break` on a non-empty table; otherwise the for loop
\* goes on to the next strategy, and ends after the fifth
AfterStrategy(ok, i) ==
    IF ok THEN "after_loop"
    ELSE IF i < Len(strategies) THEN "loop" ELSE "after_loop"

\* lines 213-221 once the strategy call has come back with outcome o
Finish(o) ==
    /\ outcomes' = Append(outcomes, o)
    /\ logs' = Append(logs, LogOf(strategies[strat_i], o))
    /\ has_df' = IF o = "data" THEN TRUE ELSE has_df
    /\ used_source' = IF o = "data" THEN strategies[strat_i] ELSE used_source
    /\ f_pc' = AfterStrategy(o = "data", strat_i)
    /\ strat_i' = IF AfterStrategy(o = "data", strat_i) = "loop"
                  THEN strat_i + 1 ELSE strat_i

InitFetch ==
    /\ df = [columns |-> {"close"}, rows |-> <<>>]
    /\ df_in = df
    /\ pc = "idle"
    /\ idx = 0
    /\ turnover = NaN
    /\ chip_dict = <<>>
    /\ total_vol = Zero
    /\ chip_df = <<>>
    /\ current_price = 0
    /\ metrics = NoMetrics
    /\ f_pc = "info"
    /\ strat_i = 1
    /\ has_df = FALSE
    /\ used_source = "None"
    /\ logs = <<>>
    /\ calls = <<>>
    /\ api_calls = <<>>
    /\ outcomes = <<>>
    /\ circulating = FALSE
    /\ result = "none"

\* lines 197-207: stock_individual_info_em gives the circulating share,
\* gives no such item, or raises
FetchInfo ==
    /\ f_pc = "info"
    /\ \E o \in {"share", "noshare", "error"} :
          /\ circulating' = (o = "share")
          /\ logs' = IF o = "error"
                     THEN Append(logs, [kind |-> "warn", source |-> "financial",
                                        msg |-> "Financial info fetch failed."])
                     ELSE logs
    /\ f_pc' = "loop"
    /\ UNCHANGED <<strat_i, has_df, used_source, calls, api_calls, outcomes,
                   result>>
    /\ UNCHANGED chipVars

\* lines 210-221: one iteration of `for source_name, strategy_func in
\* strategies`; strategy_netease with a failing first request is left in
\* its except clause (lines 153-156)
TryStrategy ==
    /\ f_pc = "loop"
    /\ calls' = Append(calls, strategies[strat_i])
    /\ api_calls' = Append(api_calls, Endpoint(strat_i))
    /\ \E o \in ApiOutcomes :
          IF strategies[strat_i] = "NetEase (163)" /\ o = "error"
          THEN /\ f_pc' = "netease_retry"
               /\ UNCHANGED <<strat_i, has_df, used_source, logs, outcomes>>
          ELSE Finish(o)
    /\ UNCHANGED <<circulating, result>>
    /\ UNCHANGED chipVars

\* lines 153-158 and 214-221: the second request of strategy_netease, with
\* the prefixed symbol, and the rest of the loop iteration
NeteaseRetry ==
    /\ f_pc = "netease_retry"
    /\ api_calls' = Append(api_calls, Endpoint(strat_i))
    /\ \E o \in ApiOutcomes : Finish(o)
    /\ UNCHANGED <<calls, circulating, result>>
    /\ UNCHANGED chipVars

\* lines 223-224
ReturnError ==
    /\ f_pc = "after_loop"
    /\ ~has_df
    /\ result' = "error"
    /\ f_pc' = "done"
    /\ UNCHANGED <<strat_i, has_df, used_source, logs, calls, api_calls,
                   outcomes, circulating>>
    /\ UNCHANGED chipVars

\* lines 226-276: the turnover column is completed and the bundle returned
ReturnBundle ==
    /\ f_pc = "after_loop"
    /\ has_df
    /\ logs' = IF ProvidesTurnover(used_source) THEN logs
               ELSE IF circulating
                    THEN Append(logs, [kind |-> "info", source |-> used_source,
                                       msg |-> "Calculated turnover_ratio"])
                    ELSE Append(logs, [kind |-> "warn", source |-> used_source,
                                       msg |-> "Missing turnover data"])
    /\ result' = "bundle"
    /\ f_pc' = "done"
    /\ UNCHANGED <<strat_i, has_df, used_source, calls, api_calls, outcomes,
                   circulating>>
    /\ UNCHANGED chipVars

NextFetch ==
    \/ FetchInfo
    \/ TryStrategy
    \/ NeteaseRetry
    \/ ReturnError
    \/ ReturnBundle

SpecFetch == InitFetch /\ [][NextFetch]_vars

-----------------------------------------------------------------------------
(* The whole of calc_chip_distribution as a function (lines 61-93) *)

RECURSIVE Simulate(_, _, _)
Simulate(rows, k, dict) ==
    IF k > Len(rows) THEN dict
    ELSE Simulate(rows, k + 1,
                  Inject(Decay(dict, TurnoverOf(rows[k])),
                         Round2(rows[k].close), TurnoverOf(rows[k])))

CalcChipDistribution(d) == BuildChipDf(Simulate(FillTurnover(d).rows, 1, <<>>))

Reversed(d) ==
    [columns |-> d.columns,
     rows |-> [k \in 1..Len(d.rows) |-> d.rows[Len(d.rows) + 1 - k]]]

-----------------------------------------------------------------------------
(* Vocabulary of the properties *)

Returned == pc \in {"returned", "metrics"}

Rows == df.rows

LastRow == Rows[Len(Rows)]

\* total turnover mass of the (filled) input series
InputMass == RSum([k \in 1..Len(Rows) |-> TurnoverOf(Rows[k])])

\* weight of the bin at price p (cents) in the returned table, 0 if none
VolumeAt(tab, p) ==
    IF \E k \in 1..Len(tab) : tab[k].price = p
    THEN tab[CHOOSE k \in 1..Len(tab) : tab[k].price = p].volume
    ELSE Zero

\* sum of f[k] over the finite index set S
RECURSIVE SumOver(_, _)
SumOver(S, f) ==
    IF S = {} THEN Zero
    ELSE LET k == CHOOSE x \in S : TRUE
         IN  RAdd(f[k], SumOver(S \ {k}, f))

\* prices (cents) of the bins whose cumulative weight is at least q
PricesAtLeast(q) ==
    {chip_df[k].price : k \in {j \in 1..Len(chip_df) : RLe(q, chip_df[j].cumsum_vol)}}

MinOf(S) == CHOOSE p \in S : \A x \in S : p <= x

-----------------------------------------------------------------------------
(* C1 *)

\* C1: for every bar the turnover fraction used in the decay and injection
\* steps lies in [0.001, 1.0]; a bar whose turnover_ratio is 0 or negative is
\* processed with 0.001, so that every bin existing before it is multiplied
\* by exactly 0.999, and a bar whose turnover_ratio is above 100 with 1.0.
C1_TurnoverClamped ==
    [][ (pc = "iterrows" /\ idx' = idx + 1) =>
           LET r == Rows[idx + 1].turnover_ratio
               p == Round2(Rows[idx + 1].close)
           IN  /\ RLe(Rat(1, 1000), turnover')
               /\ RLe(turnover', One)
               /\ RLe(r, Zero) =>
                    /\ turnover' = Rat(1, 1000)
                    /\ \A k \in 1..Len(chip_dict) :
                          chip_dict[k].price # p =>
                             chip_dict'[k].volume =
                                RMul(chip_dict[k].volume, Rat(999, 1000))
               /\ RLt(Rat(100, 1), r) => turnover' = One ]_vars

-----------------------------------------------------------------------------
(* C2 *)

\* C2: for every input series whose total turnover mass is > 0, every bin of
\* the returned distribution has weight >= 0 and the weights sum to 1.0,
\* whatever the turnover_ratio values of the bars (also above 100).
C2_NormalizedNonNegative ==
    (Returned /\ RLt(Zero, InputMass)) =>
        /\ \A k \in 1..Len(chip_df) : RLe(Zero, chip_df[k].volume)
        /\ RSum(Volumes(chip_df)) = One

-----------------------------------------------------------------------------
(* C3 *)

\* C3: in the returned table the prices are unique and ascending, cumsum_vol
\* is non-decreasing along ascending price, its first value is >= 0 and its
\* last value is 1.0, for every non-empty input series.
C3_CumulativeMonotone ==
    (Returned /\ Len(Rows) > 0) =>
        /\ Len(chip_df) > 0
        /\ \A k \in 1..(Len(chip_df) - 1) :
              /\ chip_df[k].price < chip_df[k + 1].price
              /\ RLe(chip_df[k].cumsum_vol, chip_df[k + 1].cumsum_vol)
        /\ RLe(Zero, chip_df[1].cumsum_vol)
        /\ chip_df[Len(chip_df)].cumsum_vol = One

-----------------------------------------------------------------------------
(* C4 *)

\* indices of the bins the profit side counts, by comparing the two floats
BinsBelow(cur) ==
    {k \in 1..Len(chip_df) : RLt(PriceOf(chip_df[k].price), CloseOf(cur))}

BinsAtOrBelow(cur) ==
    {k \in 1..Len(chip_df) : RLe(PriceOf(chip_df[k].price), CloseOf(cur))}

SingleBarAt42 ==
    /\ Len(df_in.rows) = 1
    /\ df_in.rows[1].close = 42000
    /\ current_price = 42000

-----------------------------------------------------------------------------
(* C5 *)

\* k * (pHigh - pLow) / (pHigh + pLow) over the lowest prices whose
\* cumulative weight is >= 0.05 and >= 0.95; 0 when a threshold is not reached
BandSpread(k) ==
    LET lo == PricesAtLeast(Rat(5, 100))
        hi == PricesAtLeast(Rat(95, 100))
    IN  IF lo = {} \/ hi = {} THEN Zero
        ELSE RDiv(RMul(Rat(k, 1), RSub(PriceOf(MinOf(hi)), PriceOf(MinOf(lo)))),
                  RAdd(PriceOf(MinOf(hi)), PriceOf(MinOf(lo))))

\* C5 as stated: concentration_90 = 100 * (pHigh - pLow) / (pHigh + pLow),
\* pLow and pHigh the lowest prices whose cumulative weight is >= 0.05 and
\* >= 0.95; 0 when a threshold is not reached, and the function returns.
C5_Concentration100 ==
    pc = "metrics" => metrics.concentration_90 = BandSpread(100)

\* C5 as amended: the factor is 200, i.e. the band width over the mean of
\* pLow and pHigh, in percent.
C5_Concentration200 ==
    pc = "metrics" => metrics.concentration_90 = BandSpread(200)

C5_Witness ==
    /\ pc = "metrics"
    /\ PricesAtLeast(Rat(5, 100)) # {}
    /\ MinOf(PricesAtLeast(Rat(5, 100))) = 1000
    /\ MinOf(PricesAtLeast(Rat(95, 100))) = 2000
    /\ metrics.concentration_90 = Rat(200, 3)

-----------------------------------------------------------------------------
(* C6 *)

LastFull == Len(Rows) > 0 /\ LastRow.turnover_ratio = Rat(100, 1)

Example102030 ==
    /\ HasTurnover(df_in)
    /\ df_in.rows = <<[close |-> 10000, turnover_ratio |-> Rat(100, 1)],
                      [close |-> 20000, turnover_ratio |-> Rat(100, 1)],
                      [close |-> 30000, turnover_ratio |-> Rat(100, 1)]>>

\* the bins of full-turnover amnesia: 1.0 at the last close's bin, 0 at
\* every other, every key of the series kept
AmnesiaBins ==
    /\ \A k \in 1..Len(chip_df) :
          chip_df[k].volume =
             IF chip_df[k].price = Round2(LastRow.close) THEN One ELSE Zero
    /\ {chip_df[k].price : k \in 1..Len(chip_df)} =
          {Round2(Rows[j].close) : j \in 1..Len(Rows)}
    /\ Example102030 =>
          chip_df = <<[price |-> 1000, volume |-> Zero, cumsum_vol |-> Zero],
                      [price |-> 2000, volume |-> Zero, cumsum_vol |-> Zero],
                      [price |-> 3000, volume |-> One, cumsum_vol |-> One]>>

\* C6 as stated: when the last bar has turnover 100%, every other bin has
\* weight 0, the last close's bin has weight 1.0 and avg_cost equals the
\* last close; [10, 20, 30] at 100% gives {10: 0, 20: 0, 30: 1.0}, avg 30.0.
C6_AvgCostIsLastClose ==
    /\ (Returned /\ LastFull) => AmnesiaBins
    /\ (pc = "metrics" /\ LastFull) =>
          /\ metrics.avg_cost = CloseOf(LastRow.close)
          /\ Example102030 => metrics.avg_cost = Rat(30, 1)

\* C6 as amended: avg_cost equals the last close rounded to 2 decimals (the
\* price of the last close's bin); the rest as stated.
C6_FullTurnoverAmnesia ==
    /\ (Returned /\ LastFull) => AmnesiaBins
    /\ (pc = "metrics" /\ LastFull) =>
          /\ metrics.avg_cost = PriceOf(Round2(LastRow.close))
          /\ Example102030 => metrics.avg_cost = Rat(30, 1)

C6_Witness ==
    /\ pc = "metrics"
    /\ Example102030
    /\ LastFull
    /\ Len(chip_df) = 3
    /\ metrics.avg_cost = Rat(30, 1)

-----------------------------------------------------------------------------
(* C7 *)

Bar(c, r) == [close |-> c, turnover_ratio |-> Rat(r, 1)]

TwoBars5050 ==
    /\ HasTurnover(df_in)
    /\ \/ df_in.rows = <<Bar(10000, 50), Bar(20000, 50)>>
       \/ df_in.rows = <<Bar(20000, 50), Bar(10000, 50)>>

\* C7: the series [(10, 50%), (20, 50%)] and the same two bars in the
\* reversed order yield different distributions, and in each the bar
\* processed last holds the larger normalized weight.
C7_OrderDependent ==
    (Returned /\ TwoBars5050) =>
        /\ chip_df # CalcChipDistribution(Reversed(df_in))
        /\ RLt(VolumeAt(chip_df, Round2(df_in.rows[1].close)),
               VolumeAt(chip_df, Round2(df_in.rows[2].close)))

C7_Witness ==
    /\ pc = "returned"
    /\ df_in.rows = <<Bar(10000, 50), Bar(20000, 50)>>
    /\ VolumeAt(chip_df, 1000) = Rat(1, 3)
    /\ VolumeAt(chip_df, 2000) = Rat(2, 3)

-----------------------------------------------------------------------------
(* C8 *)

\* C8: when the total accumulated weight is zero the outcome is that of an
\* empty series: an empty distribution, for which get_chip_metrics returns
\* all metrics as 0; never a non-empty table of unnormalized weights.
C8_ZeroMassIsEmpty ==
    (Returned /\ total_vol = Zero) =>
        /\ chip_df = <<>>
        /\ pc = "metrics" => metrics = NoMetrics

-----------------------------------------------------------------------------
(* C9 *)

\* C9: calc_chip_distribution leaves the input bars unchanged: no field of
\* any bar, turnover_ratio included, is added or overwritten.
C9_InputUnchanged ==
    pc # "fill" => df.rows = df_in.rows

-----------------------------------------------------------------------------
(* C10 *)

Failed(k) == outcomes[k] # "data"

LoggedFailed(k) ==
    \E j \in 1..Len(logs) :
        logs[j].kind = "failed" /\ logs[j].source = strategies[k]

\* C10: the five sources are tried in the fixed order, each at most once;
\* the loop stops at the first source that returns a non-empty table; a
\* source that raises or returns nothing is logged as failed and the next is
\* tried; the result is the error iff all five failed, and otherwise the
\* reported source is the first in that order that succeeded.
C10_Failover ==
    /\ Len(calls) <= Len(strategies)
    /\ calls = SubSeq(strategies, 1, Len(calls))
    /\ Len(outcomes) <= Len(calls)
    /\ \A k \in 1..Len(outcomes) : Failed(k) => LoggedFailed(k)
    /\ \A k \in 1..Len(outcomes) : k < Len(calls) => Failed(k)
    /\ f_pc = "done" =>
          /\ Len(outcomes) = Len(calls)
          /\ result \in {"error", "bundle"}
          /\ result = "error" <=>
                (Len(calls) = 5 /\ \A k \in 1..5 : Failed(k))
          /\ result = "bundle" =>
                /\ outcomes[Len(calls)] = "data"
                /\ used_source = strategies[Len(calls)]
                /\ \A k \in 1..(Len(calls) - 1) : Failed(k)

C10_Witness ==
    /\ f_pc = "done"
    /\ result = "bundle"
    /\ used_source = "Tencent Stock"
    /\ calls = <<"EastMoney (Official)", "Sina Finance", "Tencent Stock">>
    /\ outcomes = <<"empty", "error", "data">>

====
